---- MODULE Spec2Model ----
(***************************************************************************)
(* A model of life_tracker's main.py: the questionnaire (_ask), the CSV    *)
(* log store (_write), the loader (_load_all) and the plotting commands    *)
(* (_plot_all, _show_grid, _plot_single).                                  *)
(*                                                                         *)
(* Four specifications share the definitions:                              *)
(*   Spec       the four commands of main(): morning, evening, plot, save  *)
(*   SpecStore  _write called with arbitrary records (the log store alone) *)
(*   SpecDerive one evening recording, over a range of hour answers        *)
(*   SpecCrash  _write taken statement by statement, with an abort         *)
(***************************************************************************)
EXTENDS Integers, Sequences, FiniteSets, TLC

VARIABLES
    files,   \* LOGS: period -> the CSV file on disk (exists, lines of cells)
    now,     \* the wall clock, in seconds after the first invocation
    out,     \* what the last command printed, plotted and saved
    last,    \* the last _write call (period, row, times of the run)
    hist,    \* per period, the rows handed to _write so far (history)
    wr       \* the locals of a _write call in progress (SpecCrash)

vars == <<files, now, out, last, hist, wr>>

(***************************************************************************)
(* Bounds of the model.                                                    *)
(***************************************************************************)
MaxAppends == 3      \* SpecStore: _write calls in one behaviour
MaxRows == 2         \* Spec: recording commands in one behaviour

Periods == {"morning", "evening"}

(***************************************************************************)
(* Python values.  A value is a record [t, n, s]:                          *)
(*   t = "none"   None                                                     *)
(*   t = "int"    the int n                                                *)
(*   t = "float"  the float n / 1000 (n in thousandths)                    *)
(*   t = "nzero"  the float -0.0                                           *)
(*   t = "str"    the string s                                             *)
(***************************************************************************)
None == [t |-> "none", n |-> 0, s |-> ""]
PyInt(k) == [t |-> "int", n |-> k, s |-> ""]
PyFloat(mil) == [t |-> "float", n |-> mil, s |-> ""]
NegZero == [t |-> "nzero", n |-> 0, s |-> ""]
PyStr(x) == [t |-> "str", n |-> 0, s |-> x]

Abs(k) == IF k < 0 THEN -k ELSE k

Digit(d) ==
    CASE d = 0 -> "0" [] d = 1 -> "1" [] d = 2 -> "2" [] d = 3 -> "3"
      [] d = 4 -> "4" [] d = 5 -> "5" [] d = 6 -> "6" [] d = 7 -> "7"
      [] d = 8 -> "8" [] d = 9 -> "9"

\* The decimal digits of a natural number below 100000.
NatStr(k) ==
    IF k < 10 THEN Digit(k)
    ELSE IF k < 100 THEN Digit(k \div 10) \o Digit(k % 10)
    ELSE IF k < 1000 THEN Digit(k \div 100) \o Digit((k \div 10) % 10) \o Digit(k % 10)
    ELSE IF k < 10000
    THEN Digit(k \div 1000) \o Digit((k \div 100) % 10) \o Digit((k \div 10) % 10)
         \o Digit(k % 10)
    ELSE Digit(k \div 10000) \o Digit((k \div 1000) % 10) \o Digit((k \div 100) % 10)
         \o Digit((k \div 10) % 10) \o Digit(k % 10)

\* str(int)
IntStr(k) == IF k < 0 THEN "-" \o NatStr(-k) ELSE NatStr(k)

\* The decimals of a float with at most three of them: repr() prints the
\* shortest form, so trailing zeros go but one digit always stays.
FracStr(f) ==
    IF f % 100 = 0 THEN Digit(f \div 100)
    ELSE IF f % 10 = 0 THEN Digit(f \div 100) \o Digit((f \div 10) % 10)
    ELSE Digit(f \div 100) \o Digit((f \div 10) % 10) \o Digit(f % 10)

\* str(float)
FloatStr(mil) ==
    (IF mil < 0 THEN "-" ELSE "") \o NatStr(Abs(mil) \div 1000) \o "."
        \o FracStr(Abs(mil) % 1000)

\* What csv.writer puts in a cell: "" for None, a str as it is, str(v) otherwise.
Str(v) ==
    CASE v.t = "none" -> ""
      [] v.t = "int" -> IntStr(v.n)
      [] v.t = "float" -> FloatStr(v.n)
      [] v.t = "nzero" -> "-0.0"
      [] v.t = "str" -> v.s

(***************************************************************************)
(* Python dicts keep insertion order: a dict is a sequence of <<key,       *)
(* value>> pairs with distinct keys.                                       *)
(***************************************************************************)
\* A sequence given element by element, as the tuple of its elements.
Tuple(f) == f \o <<>>

Keys(d) == Tuple([i \in 1..Len(d) |-> d[i][1]])
HasKey(d, k) == \E i \in 1..Len(d) : d[i][1] = k
\* d.get(k, default)
Get(d, k, default) ==
    IF HasKey(d, k) THEN d[CHOOSE i \in 1..Len(d) : d[i][1] = k][2] ELSE default
\* d[k] = v
Put(d, k, v) ==
    IF HasKey(d, k)
    THEN Tuple([i \in 1..Len(d) |-> IF d[i][1] = k THEN <<k, v>> ELSE d[i]])
    ELSE Append(d, <<k, v>>)

InSeq(x, sq) == \E i \in 1..Len(sq) : sq[i] = x

\* list(dict.fromkeys(sq)): the first occurrence of each element, in order
KeepAt(sq, firsts) == Tuple([i \in 1..Len(firsts) |-> sq[firsts[i]]])
FromKeys(sq) ==
    KeepAt(sq, SelectSeq(Tuple([i \in 1..Len(sq) |-> i]),
                         LAMBDA i : \A j \in 1..(i - 1) : sq[j] # sq[i]))

(***************************************************************************)
(* The log store.  A file is [exists, lines]; a line is a sequence of      *)
(* cells (strings); the csv module's quoting makes a cell round-trip       *)
(* whatever text it holds, so a cell is atomic here.                       *)
(***************************************************************************)
NoFile == [exists |-> FALSE, lines |-> <<>>]

\* csv.DictReader.fieldnames or []
ExistingFields(file) ==
    IF file.exists /\ file.lines # <<>> THEN file.lines[1] ELSE <<>>

\* One row of csv.DictReader: a cell per fieldname, None (restval) where the
\* line is short; cells beyond the header go under the key None, which no
\* fieldname ever equals.
ReadRow(fieldnames, line) ==
    Tuple([i \in 1..Len(fieldnames) |->
        <<fieldnames[i], IF i <= Len(line) THEN PyStr(line[i]) ELSE None>>])

\* list(csv.DictReader(fh)): the lines after the header, blank lines skipped
ReadRows(fieldnames, kept) ==
    Tuple([i \in 1..Len(kept) |-> ReadRow(fieldnames, kept[i])])
DictReader(file) ==
    ReadRows(ExistingFields(file),
             SelectSeq(IF file.exists /\ file.lines # <<>> THEN Tail(file.lines) ELSE <<>>,
                       LAMBDA ln : ln # <<>>))

\* A faulty variant: the new keys first.
FieldnamesNewFirst(existing_fields, row) == FromKeys(Keys(row) \o existing_fields)

\* fieldnames = list(dict.fromkeys(existing_fields + list(row.keys())))
Fieldnames(existing_fields, row) == FromKeys(existing_fields \o Keys(row))

\* A faulty variant: a key the row lacks gets no cell.
RowCellsSkipMissing(fieldnames, r) ==
    SelectSeq(Tuple([i \in 1..Len(fieldnames) |->
                        IF HasKey(r, fieldnames[i])
                        THEN Str(Get(r, fieldnames[i], PyStr(""))) ELSE "absent"]),
              LAMBDA cell : cell # "absent")

\* writer.writerow({k: r.get(k, "") for k in fieldnames})
RowCells(fieldnames, r) ==
    Tuple([i \in 1..Len(fieldnames) |-> Str(Get(r, fieldnames[i], PyStr("")))])

\* A faulty variant: the file is opened for writing without its rows being read first.
RowsToWriteNoReload(file, row) == <<row>>

\* rows = list(reader); rows.append(row)
RowsToWrite(file, row) == Append(DictReader(file), row)

\* writer.writeheader(); for r in rows: writer.writerow(...)
WriteAll(fieldnames, rows) ==
    <<fieldnames>> \o Tuple([i \in 1..Len(rows) |-> RowCells(fieldnames, rows[i])])

\* The lines _write puts in the file: the header, then every row.
WrittenLines(file, row) ==
    WriteAll(Fieldnames(ExistingFields(file), row), RowsToWrite(file, row))

\* _write(period, row), from the file before to the file after
Write(file, row) == [exists |-> TRUE, lines |-> WrittenLines(file, row)]

(***************************************************************************)
(* SpecStore: the log store under arbitrary records.  _write takes any     *)
(* dict; here its keys are one or two of StoreCols, in either order, and   *)
(* each value is None or the column's sample value.                        *)
(***************************************************************************)
StoreCols == {"a", "b"}
StoreValues(k) == IF k = "a" THEN {None, PyInt(12)} ELSE {None, PyStr("x")}

StoreRecords ==
    {<<<<k, v>>>> : k \in StoreCols, v \in UNION {StoreValues(c) : c \in StoreCols}}
    \cup {<<<<k1, v1>>, <<k2, v2>>>> :
            k1 \in StoreCols, k2 \in StoreCols,
            v1 \in UNION {StoreValues(c) : c \in StoreCols},
            v2 \in UNION {StoreValues(c) : c \in StoreCols}}

ValidStoreRecord(r) ==
    /\ \A i \in 1..Len(r) : r[i][2] \in StoreValues(r[i][1])
    /\ \A i, j \in 1..Len(r) : i # j => r[i][1] # r[j][1]

Idle == [pc |-> "idle", period |-> "morning", row |-> <<>>, before |-> NoFile,
         rows |-> <<>>, fieldnames |-> <<>>, written |-> <<>>, next |-> 0]
NoOut == [cmd |-> "", console |-> <<>>, calls |-> <<>>, saved |-> {}, exit |-> 0]
NoLast == [period |-> "", row |-> <<>>, started |-> 0, answered |-> 0]

TotalAppends == Len(hist["morning"]) + Len(hist["evening"])

InitStore ==
    /\ files = [p \in Periods |-> NoFile]
    /\ now = 0
    /\ out = NoOut
    /\ last = NoLast
    /\ hist = [p \in Periods |-> <<>>]
    /\ wr = Idle

\* One call _write(period, row).
StoreAppend(period, row) ==
    /\ TotalAppends < MaxAppends
    /\ files' = [files EXCEPT ![period] = Write(files[period], row)]
    /\ hist' = [hist EXCEPT ![period] = Append(@, row)]
    /\ last' = [NoLast EXCEPT !.period = period, !.row = row]
    /\ UNCHANGED <<now, out, wr>>

NextStore ==
    \E period \in Periods, row \in StoreRecords :
        ValidStoreRecord(row) /\ StoreAppend(period, row)

SpecStore == InitStore /\ [][NextStore]_vars

\* load(period): the header and the rows of the period's table
Header(period) == ExistingFields(files[period])
Load(period) == DictReader(files[period])

\* C1: every line of every persisted table has exactly one cell for each
\* column of the table's header, rows written before a column existed included.
RowsMatchHeader ==
    \A p \in Periods :
        files[p].exists =>
            \A i \in 1..Len(files[p].lines) :
                Len(files[p].lines[i]) = Len(files[p].lines[1])

\* C1 witness: a row written before column "b" existed has been backfilled
\* with an empty cell.
BackfilledRow ==
    \E p \in Periods :
        /\ Len(hist[p]) >= 2
        /\ ~HasKey(hist[p][1], "b")
        /\ Header(p) = <<"a", "b">>
        /\ files[p].lines[2] = <<"12", "">>

\* The cell an appended value is expected to read back as: its text, and
\* the empty cell when the record has no value for the column.
CellOf(record, k) == Str(Get(record, k, None))

\* C2: load(period) is the period's appended records, one row each, in
\* append order, every field with the text of the value appended and every
\* other column empty; a period never written has no table.
LoadIsHistory ==
    \A p \in Periods :
        /\ (hist[p] = <<>>) => (~files[p].exists /\ Load(p) = <<>>)
        /\ Len(Load(p)) = Len(hist[p])
        /\ \A i \in 1..Len(hist[p]) :
              /\ \A j \in 1..Len(hist[p][i]) : InSeq(hist[p][i][j][1], Header(p))
              /\ Keys(Load(p)[i]) = Header(p)
              /\ \A j \in 1..Len(Header(p)) :
                    Load(p)[i][j][2] = PyStr(CellOf(hist[p][i], Header(p)[j]))

\* C2 witness: both periods hold rows, appended in turn, and the first
\* row of the morning table still reads back after a later append to it.
InterleavedLoads ==
    /\ Len(hist["morning"]) = 2
    /\ Len(hist["evening"]) = 1
    /\ last.period = "morning"
    /\ Get(hist["morning"][1], "a", None) = PyInt(12)
    /\ Get(Load("morning")[1], "a", None) = PyStr("12")
    /\ CellOf(hist["morning"][2], "a") # "12"

\* The keys of a record that a header lacks, in the record's order.
NewKeys(header, record) == SelectSeq(Keys(record), LAMBDA k : ~InSeq(k, header))

\* C3: every append leaves the period's header equal to the header before
\* it followed by the record's keys that were not in it, in the record's
\* order, and leaves the other period's header alone.
HeaderGrowsInOrder ==
    [][\A p \in Periods :
          Header(p)' = IF last'.period = p
                       THEN Header(p) \o NewKeys(Header(p), last'.row)
                       ELSE Header(p)]_vars

\* C3 witness: a header that grew on two different calls, the second
\* record naming its new column before an old one.
HeaderGrewTwice ==
    \E p \in Periods :
        /\ Len(hist[p]) = 3
        /\ Keys(hist[p][1]) = <<"b">>
        /\ Keys(hist[p][2]) = <<"a", "b">>
        /\ Keys(hist[p][3]) = <<"a">>
        /\ Header(p) = <<"b", "a">>

(***************************************************************************)
(* Text to number.  float(raw), int(raw) and pandas' parse of a cell are   *)
(* the inverse of the formatting above, over the numbers below: a text     *)
(* that is the str() of none of them is not a number.                      *)
(***************************************************************************)
MaxNegInt == 9           \* integers between -9
MinInt == -MaxNegInt
MaxInt == 99             \* and 99
MaxRatioMil == 3000      \* floats of up to three decimals between -3 and 3
MaxHalfHours == 40       \* and the halves between -20 and 20

\* The table text -> number of a formatting, built by halving the range.
RECURSIVE IntTableOf(_, _)
IntTableOf(lo, hi) ==
    IF lo = hi THEN (IntStr(lo) :> lo)
    ELSE IntTableOf(lo, (lo + hi) \div 2) @@ IntTableOf((lo + hi) \div 2 + 1, hi)

RECURSIVE FloatTableOf(_, _, _)
FloatTableOf(lo, hi, step) ==
    IF lo = hi THEN (FloatStr(lo * step) :> lo * step)
    ELSE FloatTableOf(lo, (lo + hi) \div 2, step)
         @@ FloatTableOf((lo + hi) \div 2 + 1, hi, step)

IntTable == IntTableOf(MinInt, MaxInt)
FloatTable ==
    FloatTableOf(-MaxRatioMil, MaxRatioMil, 1)
        @@ FloatTableOf(-MaxHalfHours, MaxHalfHours, 500) @@ ("-0.0" :> 0)
IntTexts == DOMAIN IntTable
FloatTexts == DOMAIN FloatTable

IsIntText(x) == x \in IntTexts
IsFloatText(x) == x \in FloatTexts
IsNumberText(x) == IsIntText(x) \/ IsFloatText(x)
\* The number a text denotes, in thousandths.
NumberOf(x) == IF IsIntText(x) THEN 1000 * IntTable[x] ELSE FloatTable[x]

\* raw.strip(), for the padded answers of the model
Strip(raw) ==
    CASE raw = " " -> "" [] raw = " 3 " -> "3" [] OTHER -> raw

ValueError == [t |-> "ValueError", n |-> 0, s |-> ""]

\* int(raw), float(raw), str: the casters of the questionnaires
Cast(raw, caster) ==
    CASE caster = "int" ->
            IF IsIntText(raw) THEN PyInt(NumberOf(raw) \div 1000) ELSE ValueError
      [] caster = "float" ->
            IF raw = "-0.0" THEN NegZero
            ELSE IF IsNumberText(raw) THEN PyFloat(NumberOf(raw)) ELSE ValueError
      [] caster = "str" -> PyStr(raw)

\* _optional_cast(raw, caster)
OptionalCast(raw, caster) ==
    IF Strip(raw) = "" THEN None ELSE Cast(Strip(raw), caster)

MORNING_Q == <<
    <<"sleep_hours", "float">>, <<"freshness", "int">>, <<"anxiety", "int">>,
    <<"curiosity", "int">>, <<"motivation", "int">>, <<"prev_detox", "int">>,
    <<"obsession_lvl", "int">>, <<"primary_goal", "str">> >>

EVENING_Q == <<
    <<"deep_work_hours", "float">>, <<"shallow_work_hours", "float">>,
    <<"problems_solved", "int">>, <<"progress_logged", "int">>,
    <<"satisfaction", "int">>, <<"mood", "int">>, <<"biggest_insight", "str">> >>

QSpec(period) == IF period = "morning" THEN MORNING_Q ELSE EVENING_Q

\* MOTIVATION_METRIC: the metric of the instant pop-up
MOTIVATION_METRIC(period) ==
    IF period = "morning" THEN "problems_solved" ELSE "total_hours"

\* value = _optional_cast(raw, caster) if caster is not str else raw.strip()
Answer(raw, caster) ==
    IF caster = "str" THEN PyStr(Strip(raw)) ELSE OptionalCast(raw, caster)

\* The while loop of one question: the answers typed, up to the first one
\* the caster accepts (the position of that answer, 0 if none is accepted).
RECURSIVE Accepted(_, _, _)
Accepted(attempts, caster, i) ==
    IF i > Len(attempts) THEN 0
    ELSE IF Answer(attempts[i], caster) # ValueError THEN i
    ELSE Accepted(attempts, caster, i + 1)

\* The questions of _ask, from the row so far: row[key] = value for each.
RECURSIVE AskQuestions(_, _, _, _)
AskQuestions(row, qspec, sheet, i) ==
    IF i > Len(qspec) THEN row
    ELSE LET k == Accepted(sheet[i], qspec[i][2], 1)
         IN AskQuestions(Put(row, qspec[i][1], Answer(sheet[i][k], qspec[i][2])),
                         qspec, sheet, i + 1)

\* One "Invalid input, try again" per rejected answer.
RECURSIVE Warnings(_, _, _)
Warnings(qspec, sheet, i) ==
    IF i > Len(qspec) THEN <<>>
    ELSE Tuple([j \in 1..(Accepted(sheet[i], qspec[i][2], 1) - 1) |-> "Invalid input, try again"])
         \o Warnings(qspec, sheet, i + 1)

\* A sheet answers every question: its last answer is accepted, none before is.
Complete(qspec, sheet) ==
    /\ Len(sheet) = Len(qspec)
    /\ \A i \in 1..Len(qspec) : Accepted(sheet[i], qspec[i][2], 1) = Len(sheet[i])

(***************************************************************************)
(* Python arithmetic of the derived fields.                                *)
(***************************************************************************)
IsNum(v) == v.t \in {"int", "float", "nzero"}
\* the number in thousandths
Mil(v) == IF v.t = "int" THEN 1000 * v.n ELSE IF v.t = "float" THEN v.n ELSE 0
\* bool(v)
Truthy(v) ==
    CASE v.t = "none" -> FALSE
      [] v.t = "str" -> v.s # ""
      [] OTHER -> Mil(v) # 0
\* v or 0
Or0(v) == IF Truthy(v) THEN v ELSE PyInt(0)
\* a + b: an int when both are, a float otherwise (x + -x is +0.0)
Add(a, b) ==
    IF a.t = "int" /\ b.t = "int" THEN PyInt(a.n + b.n)
    ELSE IF a.t = "nzero" /\ b.t = "nzero" THEN NegZero
    ELSE PyFloat(Mil(a) + Mil(b))

\* The nearest thousandth of a / b, ties to the even one, for b # 0.
RoundDiv(a, b) ==
    LET num == 1000 * Abs(a)
        den == Abs(b)
        q == num \div den
        r == num % den
        up == 2 * r > den \/ (2 * r = den /\ q % 2 = 1)
        mag == IF up THEN q + 1 ELSE q
    IN IF (a < 0) = (b < 0) THEN mag ELSE -mag

\* round(deep / total, 3): a float; a zero of negative sign is -0.0
RoundedRatio(deep, total) ==
    LET m == RoundDiv(Mil(deep), Mil(total))
        negDeep == Mil(deep) < 0 \/ deep.t = "nzero"
        negTotal == Mil(total) < 0
    IN IF m = 0 /\ negDeep # negTotal THEN NegZero ELSE PyFloat(m)

\* A faulty variant: the guard tests the sign of total, not its truth.
FlowRatioPositiveOnly(deep, total) ==
    IF Mil(total) > 0 THEN RoundedRatio(deep, total) ELSE None

\* round(deep / total, 3) if total else None
FlowRatio(deep, total) ==
    IF Truthy(total) THEN RoundedRatio(deep, total) ELSE None

\* A faulty variant: the reward goes to a six.
RewardOnSix(roll) == IF roll = 6 THEN 1 ELSE 0

\* 1 if roll == 1 else 0
Reward(roll) == IF roll = 1 THEN 1 ELSE 0

\* random.randint(1, 6)
DieSides == 6

\* The derived and automatic fields of an evening row.
Derived(row, roll) ==
    LET deep == Or0(Get(row, "deep_work_hours", None))
        shallow == Or0(Get(row, "shallow_work_hours", None))
        total == Add(deep, shallow)
        r1 == Put(row, "flow_ratio", FlowRatio(deep, total))
        r2 == Put(r1, "total_hours", total)
        r3 == Put(r2, "die_roll", PyInt(roll))
    IN Put(r3, "reward", PyInt(Reward(roll)))

(***************************************************************************)
(* Time.  The clock counts seconds from the first invocation;              *)
(* datetime.now().isoformat(sep=" ", timespec="seconds") prints it.        *)
(***************************************************************************)
TwoDigits(k) == Digit(k \div 10) \o Digit(k % 10)
IsoFormat(t) == "2025-01-06 07:00:" \o TwoDigits(t)
\* pandas' parse of a timestamp cell (parse_dates), back to the clock's seconds
IsoTable == [x \in {IsoFormat(t) : t \in 0..59} |-> CHOOSE t \in 0..59 : IsoFormat(t) = x]
ParseDate(x) == IsoTable[x]

\* A faulty variant: the clock is read when the row is written.
StampTimeAtWrite(started, answered) == answered

\* The clock reading the row's timestamp holds: datetime.now() is called
\* when the row dict is built, before the first input().
StampTime(started, answered) == started

(***************************************************************************)
(* _load_all: the tables that exist, in LOGS order, concatenated.  The     *)
(* frame is [columns, rows]; a row is a dict from the columns of its own   *)
(* table, and a cell that is empty or in no column of the row is NaN.      *)
(***************************************************************************)
LOGS == <<"morning", "evening">>

\* A faulty variant: every path of LOGS is read, whether it exists or not.
ExistingLogsUnchecked(fs) == LOGS

\* [... for p in LOGS.values() if p.exists()]
ExistingLogs(fs) == SelectSeq(LOGS, LAMBDA p : fs[p].exists)

RECURSIVE ConcatRows(_, _, _)
ConcatRows(fs, logs, i) ==
    IF i > Len(logs) THEN <<>>
    ELSE DictReader(fs[logs[i]]) \o ConcatRows(fs, logs, i + 1)

RECURSIVE ConcatColumns(_, _, _)
ConcatColumns(fs, logs, i) ==
    IF i > Len(logs) THEN <<>>
    ELSE ExistingFields(fs[logs[i]]) \o ConcatColumns(fs, logs, i + 1)

\* pd.concat(dfs, ignore_index=True) if dfs else pd.DataFrame(); pd.read_csv
\* of a path that does not exist raises FileNotFoundError.
Concat(fs, logs) ==
    [columns |-> FromKeys(ConcatColumns(fs, logs, 1)),
     rows |-> ConcatRows(fs, logs, 1),
     error |-> \E i \in 1..Len(logs) : ~fs[logs[i]].exists]

LoadAll(fs) == Concat(fs, ExistingLogs(fs))

\* df.empty
Empty(df) == df.rows = <<>> \/ df.columns = <<>>

\* The text of a cell of the frame, "" for NaN.
CellText(r, col) == Str(Get(r, col, None))

\* df.select_dtypes(include=["int64", "float64"]).columns: the timestamp is
\* a date; another column is numeric when each of its cells is a number or NaN.
NumericColumns(df) ==
    SelectSeq(df.columns,
        LAMBDA col : /\ col # "timestamp"
                     /\ \A i \in 1..Len(df.rows) :
                           \/ CellText(df.rows[i], col) = ""
                           \/ IsNumberText(CellText(df.rows[i], col)))

\* The timestamps of the frame's rows, as parsed.
Times(df) ==
    Tuple([i \in 1..Len(df.rows) |-> ParseDate(CellText(df.rows[i], "timestamp"))])

Ascending(times, n) ==
    {o \in [1..n -> 1..n] :
        /\ \A i, j \in 1..n : i # j => o[i] # o[j]
        /\ \A i \in 1..(n - 1) : times[o[i]] <= times[o[i + 1]]}

\* df.sort_values("timestamp"): quicksort is not stable, so rows of equal
\* timestamp come in any order.  An order is a permutation of the row indices.
SortOrders(df) == Ascending(Times(df), Len(df.rows))

\* A point of a series: a number in thousandths, or NaN.
NaN == [nan |-> TRUE, v |-> 0]
Num(m) == [nan |-> FALSE, v |-> m]

\* df_sorted["timestamp"] and df_sorted[col]
SortedTimes(df, order) ==
    Tuple([i \in 1..Len(order) |-> ParseDate(CellText(df.rows[order[i]], "timestamp"))])
SortedColumn(df, order, col) ==
    Tuple([i \in 1..Len(order) |->
        IF CellText(df.rows[order[i]], col) = "" THEN NaN
        ELSE Num(NumberOf(CellText(df.rows[order[i]], col)))])

\* y.fillna(0)
FillNa(y) == Tuple([i \in 1..Len(y) |-> IF y[i].nan THEN Num(0) ELSE y[i]])

\* y.cumsum()
RECURSIVE SumTo(_, _)
SumTo(y, i) == IF i = 0 THEN 0 ELSE y[i].v + SumTo(y, i - 1)
CumSum(y) == Tuple([i \in 1..Len(y) |-> Num(SumTo(y, i))])

\* The columns _plot_single shows as a running sum.
Cumulative(col) == col \in {"problems_solved", "total_hours"}

\* The title of a plot; col.replace("_", " ").title() is kept as col.
Label(col) ==
    CASE col = "problems_solved" -> "Cumulative Problems Solved"
      [] col = "total_hours" -> "Cumulative Total Hours Worked"
      [] OTHER -> col

NoEffect == [calls |-> <<>>, console |-> <<>>, saved |-> {}]

\* _plot_single(col, df=df, display=display, save=save): one figure, saved
\* as <col>.png and/or shown.
PlotSingle(col, df, order, display, save) ==
    IF ~InSeq(col, df.columns) THEN NoEffect
    ELSE LET y == FillNa(SortedColumn(df, order, col))
         IN [calls |-> << [fn |-> "_plot_single", col |-> col, label |-> Label(col),
                           x |-> SortedTimes(df, order),
                           y |-> IF Cumulative(col) THEN CumSum(y) ELSE y,
                           display |-> display, save |-> save] >>,
             console |-> IF save THEN <<"Saved " \o col \o ".png">> ELSE <<>>,
             saved |-> IF save THEN {col \o ".png"} ELSE {}]

\* _show_grid(df, cols): one axis per column, the column as it is.
ShowGrid(df, cols, order) ==
    [calls |-> Tuple([i \in 1..Len(cols) |->
                   [fn |-> "_show_grid", col |-> cols[i], label |-> cols[i],
                    x |-> SortedTimes(df, order),
                    y |-> SortedColumn(df, order, cols[i]),
                    display |-> TRUE, save |-> FALSE]]),
     console |-> <<>>, saved |-> {}]

Then(e1, e2) ==
    [calls |-> e1.calls \o e2.calls, console |-> e1.console \o e2.console,
     saved |-> e1.saved \cup e2.saved]

RECURSIVE SaveEach(_, _, _, _)
SaveEach(df, cols, order, i) ==
    IF i > Len(cols) THEN NoEffect
    ELSE Then(PlotSingle(cols[i], df, order, FALSE, TRUE), SaveEach(df, cols, order, i + 1))

PlotColumns(df, cols, order, display, save) ==
    IF cols = <<>>
    THEN [NoEffect EXCEPT !.console = <<"No numeric fields yet.">>]
    ELSE Then(IF display THEN ShowGrid(df, cols, order) ELSE NoEffect,
              IF save THEN SaveEach(df, cols, order, 1) ELSE NoEffect)

\* _plot_all(display, save), on the frame _load_all returned
PlotAllEffect(df, order, display, save) ==
    IF Empty(df) THEN [NoEffect EXCEPT !.console = <<"No log data yet.">>]
    ELSE PlotColumns(df, NumericColumns(df), order, display, save)

(***************************************************************************)
(* Spec: the commands of main().  Each is one invocation of the program.   *)
(***************************************************************************)
\* What the user types: per question, the answers up to the accepted one.
MorningSheets == {
    << <<"7.5">>, <<"">>, <<"2">>, <<"4">>, <<"5">>, <<"">>, <<"3">>, <<"ship core">> >>,
    << <<"late", "8">>, <<" 3 ">>, <<" ">>, <<"3">>, <<"2">>, <<"1">>, <<"5">>, <<"read">> >> }

EveningSheet(deep, shallow, solved) ==
    << <<deep>>, <<shallow>>, solved, <<"">>, <<"4">>, <<"3">>, <<"keep going">> >>

\* Every question skipped with a bare return.
SkippedSheet(qspec) == Tuple([i \in 1..Len(qspec) |-> <<"">>])

EveningSheets == {EveningSheet("1", "2", <<"2">>), SkippedSheet(EVENING_Q)}

\* The seconds the questions of one recording take: a second when something
\* is typed, none when every question is skipped with a bare return.
Elapsed(sheet) == IF \A i \in 1..Len(sheet) : sheet[i] = <<"">> THEN 0 ELSE 1

TotalRows ==
    LET n(p) == IF files[p].exists THEN Len(files[p].lines) - 1 ELSE 0
    IN n("morning") + n("evening")

Init == InitStore

\* One invocation of the program runs at a time: a command starts when the
\* one before it has ended, and out is what the running one has done.
AtShell == out.cmd = ""

\* What _ask prints before the plot.
Said(period, sheet, roll) ==
    Warnings(QSpec(period), sheet, 1)
        \o (IF period = "evening"
            THEN <<"You rolled a " \o IntStr(roll)
                   \o (IF roll = 1 THEN ". Reward!" ELSE ". No reward today.")>>
            ELSE <<>>)
        \o <<"Logged " \o period>>

\* row = {"timestamp": ..., "period": period}; then the questions, and for
\* an evening row the derived fields and the die roll.
BuildRow(period, sheet, stamp, roll) ==
    IF period = "evening"
    THEN Derived(AskQuestions(<< <<"timestamp", PyStr(IsoFormat(stamp))>>,
                                 <<"period", PyStr(period)>> >>,
                              EVENING_Q, sheet, 1), roll)
    ELSE AskQuestions(<< <<"timestamp", PyStr(IsoFormat(stamp))>>,
                         <<"period", PyStr(period)>> >>,
                      MORNING_Q, sheet, 1)

\* The pop-up of the period's metric, on the frame loaded after the write.
AskPlot(period, said, df) ==
    \E order \in SortOrders(df) :
        out' = [cmd |-> period,
                console |-> said \o PlotSingle(MOTIVATION_METRIC(period), df, order,
                                               TRUE, FALSE).console,
                calls |-> PlotSingle(MOTIVATION_METRIC(period), df, order, TRUE, FALSE).calls,
                saved |-> {}, exit |-> 0]

AskWrite(period, row, said, fs) ==
    /\ files' = fs
    /\ AskPlot(period, said, LoadAll(fs))

AskRow(period, row, said, started, answered) ==
    /\ last' = [period |-> period, row |-> row, started |-> started,
                answered |-> answered]
    /\ AskWrite(period, row, said, [files EXCEPT ![period] = Write(files[period], row)])

\* _ask(period, qspec): the row is built around the clock reading, the
\* questions are asked, an evening row gets its derived fields and its die
\* roll, the row is written, and the period's metric is plotted.
Ask(period, sheet, elapsed, roll) ==
    /\ AtShell
    /\ Complete(QSpec(period), sheet)
    /\ now' = now + elapsed
    /\ AskRow(period, BuildRow(period, sheet, StampTime(now, now + elapsed), roll),
              Said(period, sheet, roll), now, now + elapsed)
    /\ UNCHANGED <<hist, wr>>

\* python main.py morning
Morning ==
    /\ TotalRows < MaxRows
    /\ \E sheet \in MorningSheets : Ask("morning", sheet, Elapsed(sheet), 0)

\* python main.py evening
Evening ==
    /\ TotalRows < MaxRows
    /\ \E sheet \in EveningSheets, roll \in 1..DieSides :
          Ask("evening", sheet, Elapsed(sheet), roll)

PlotAllOut(cmd, eff) ==
    out' = [cmd |-> cmd, console |-> eff.console, calls |-> eff.calls,
            saved |-> eff.saved, exit |-> 0]

PlotAllOn(cmd, df, display, save) ==
    IF df.error
    THEN out' = [NoOut EXCEPT !.cmd = cmd, !.console = <<"Traceback">>, !.exit = 1]
    ELSE \E order \in SortOrders(df) :
            PlotAllOut(cmd, PlotAllEffect(df, order, display, save))

\* _plot_all(display, save): a frame that cannot be loaded ends the command
\* with a traceback.
PlotAll(cmd, display, save) ==
    /\ AtShell
    /\ PlotAllOn(cmd, LoadAll(files), display, save)
    /\ UNCHANGED <<files, now, last, hist, wr>>

\* python main.py plot
Plot == PlotAll("plot", TRUE, FALSE)

\* python main.py save
Save == PlotAll("save", FALSE, TRUE)

\* The process ends.
Exit ==
    /\ ~AtShell
    /\ out' = NoOut
    /\ UNCHANGED <<files, now, last, hist, wr>>

Next == Morning \/ Evening \/ Plot \/ Save \/ Exit

Spec == Init /\ [][Next]_vars

(***************************************************************************)
(* SpecDerive: the first evening recording, over every pair of answers to  *)
(* the two hours questions.                                                *)
(***************************************************************************)
HourTexts == {"", "0", "0.5", "1", "2", "3", "-1", "-0.0"}

DeriveSheets == {EveningSheet(deep, shallow, <<"">>) : deep \in HourTexts, shallow \in HourTexts}

FirstEvening ==
    /\ TotalRows = 0
    /\ \E sheet \in DeriveSheets, roll \in 1..DieSides :
          Ask("evening", sheet, Elapsed(sheet), roll)

NextDerive == FirstEvening \/ Exit

SpecDerive == Init /\ [][NextDerive]_vars

\* The number in a cell, in thousandths; an empty cell counts as 0.
CellNumber(r, col) == IF CellText(r, col) = "" THEN 0 ELSE NumberOf(CellText(r, col))

\* f thousandths is deep / total to the nearest thousandth.
NearestThousandth(f, deep, total) == 2 * Abs(f * total - 1000 * deep) <= Abs(total)

TotalIsSum(r) ==
    /\ CellText(r, "total_hours") # ""
    /\ CellNumber(r, "total_hours")
           = CellNumber(r, "deep_work_hours") + CellNumber(r, "shallow_work_hours")

RatioPresent(r) ==
    /\ CellText(r, "flow_ratio") # ""
    /\ NearestThousandth(CellNumber(r, "flow_ratio"), CellNumber(r, "deep_work_hours"),
                         CellNumber(r, "total_hours"))

\* C5, as claimed: total_hours is the sum of the two hours, a skipped one
\* counting 0; flow_ratio is deep / total to three decimals when total_hours
\* is positive, and is absent otherwise.
FlowRatioWhenPositive ==
    \A i \in 1..Len(Load("evening")) :
        /\ TotalIsSum(Load("evening")[i])
        /\ IF CellNumber(Load("evening")[i], "total_hours") > 0
           THEN RatioPresent(Load("evening")[i])
           ELSE CellText(Load("evening")[i], "flow_ratio") = ""

\* C5, amended: total_hours is the sum of the two hours, a skipped one
\* counting 0; flow_ratio is deep / total to three decimals when total_hours
\* is not zero, negative totals included, and is absent when it is zero.
FlowRatioWhenNonZero ==
    \A i \in 1..Len(Load("evening")) :
        /\ TotalIsSum(Load("evening")[i])
        /\ IF CellNumber(Load("evening")[i], "total_hours") # 0
           THEN RatioPresent(Load("evening")[i])
           ELSE CellText(Load("evening")[i], "flow_ratio") = ""

\* C5 witness: a recorded evening whose hours sum to less than zero, with
\* its ratio present; and one with a ratio that had to be rounded.
NegativeTotalHasRatio ==
    /\ Len(Load("evening")) = 1
    /\ CellText(Load("evening")[1], "deep_work_hours") = "-1.0"
    /\ CellText(Load("evening")[1], "shallow_work_hours") = "0.5"
    /\ CellText(Load("evening")[1], "total_hours") = "-0.5"
    /\ CellText(Load("evening")[1], "flow_ratio") = "2.0"

(***************************************************************************)
(* The claims about the commands (Spec).                                   *)
(***************************************************************************)
LastRow(period) == Load(period)[Len(Load(period))]
\* The clock reading that the timestamp of the last recorded row denotes.
LastStamp == ParseDate(CellText(LastRow(last.period), "timestamp"))

\* C8, as claimed: the stored timestamp is not earlier than the time at
\* which the last question of the record was answered.
StampNotBeforeAnswers ==
    last.period # "" => LastStamp >= last.answered

\* C8, amended: the stored timestamp is the clock reading taken when the
\* recording starts, before the first question is asked; it is never later
\* than the time at which any question of the record was answered.
StampIsStartOfRecording ==
    last.period # "" => (LastStamp = last.started /\ LastStamp <= last.answered)

\* C8 witness: a recording whose questions took time, stamped with its start.
StampedBeforeAnswers ==
    /\ last.period = "evening"
    /\ last.answered > last.started
    /\ LastStamp = last.started

\* C9: every persisted evening row has a die_roll of 1..6 and a reward of 0
\* or 1, the reward being 1 exactly when the die shows 1.
RewardIffRolledOne ==
    \A i \in 1..Len(Load("evening")) :
        /\ CellText(Load("evening")[i], "die_roll") \in {IntStr(k) : k \in 1..DieSides}
        /\ CellText(Load("evening")[i], "reward") \in {"0", "1"}
        /\ (CellText(Load("evening")[i], "reward") = "1")
               <=> (CellText(Load("evening")[i], "die_roll") = "1")

\* C9 witness: two evenings recorded, the first rolled a 1 and was rewarded,
\* the second rolled a 6 and was not.
RewardedThenNot ==
    /\ Len(Load("evening")) = 2
    /\ CellText(Load("evening")[1], "die_roll") = "1"
    /\ CellText(Load("evening")[1], "reward") = "1"
    /\ CellText(Load("evening")[2], "die_roll") = "6"
    /\ CellText(Load("evening")[2], "reward") = "0"

\* C10: as long as nothing has been recorded, no log exists, the unified
\* view loads empty and without an error, and a plot or save command prints
\* "No log data yet.", plots nothing, saves nothing and ends normally.
NoDataBeforeFirstRecord ==
    last.period = "" =>
        /\ \A p \in Periods : files[p] = NoFile
        /\ ~LoadAll(files).error
        /\ Empty(LoadAll(files))
        /\ out.cmd \in {"plot", "save"} =>
              /\ out.console = <<"No log data yet.">>
              /\ out.calls = <<>>
              /\ out.saved = {}
              /\ out.exit = 0

\* C10 witness: save has run before any recording and reported no data.
SaveReportedNoData ==
    /\ last.period = ""
    /\ out.cmd = "save"
    /\ out.console = <<"No log data yet.">>

\* The value a row gives a column's series: its number, 0 when it has none.
ValueOrZero(r, col) == CellNumber(r, col)

RECURSIVE RunningSum(_, _, _, _)
RunningSum(df, order, col, i) ==
    IF i = 0 THEN 0
    ELSE ValueOrZero(df.rows[order[i]], col) + RunningSum(df, order, col, i - 1)

PointValue(pt) == IF pt.nan THEN 0 ELSE pt.v

\* The series of a call is the one the policy gives under this order.
FollowsPolicy(call, df, order) ==
    /\ call.x = SortedTimes(df, order)
    /\ Len(call.y) = Len(order)
    /\ \A i \in 1..Len(order) :
          PointValue(call.y[i])
              = IF call.col \in {"problems_solved", "total_hours"}
                THEN RunningSum(df, order, call.col, i)
                ELSE ValueOrZero(df.rows[order[i]], call.col)

EveryCallFollowsPolicy(df) ==
    \A c \in 1..Len(out.calls) :
        \E order \in SortOrders(df) : FollowsPolicy(out.calls[c], df, order)

\* C6: on every path, the series handed to the visualizer is the running
\* sum over the rows in timestamp order for problems_solved and total_hours,
\* and the column's values unchanged for every other column.
CumulativeOnEveryPath == EveryCallFollowsPolicy(LoadAll(files))

\* A row without a value adds 0: the point is 0, or for a running sum the
\* point before it.
MissingAddsZero(call, df, order) ==
    /\ call.x = SortedTimes(df, order)
    /\ Len(call.y) = Len(order)
    /\ \A i \in 1..Len(order) :
          CellText(df.rows[order[i]], call.col) = "" =>
              call.y[i] = IF call.col \in {"problems_solved", "total_hours"} /\ i > 1
                          THEN call.y[i - 1] ELSE Num(0)

EveryCallFillsZero(df) ==
    \A c \in 1..Len(out.calls) :
        /\ Len(out.calls[c].y) = Len(df.rows)
        /\ \E order \in SortOrders(df) : MissingAddsZero(out.calls[c], df, order)

\* C7: on every path, a series has one point per row of the unified view,
\* in timestamp order, and a row with no value for the column adds 0.
MissingIsZeroOnEveryPath == EveryCallFillsZero(LoadAll(files))

(***************************************************************************)
(* SpecCrash: _write statement by statement.  The process may be killed,   *)
(* or a write may fail, between any two statements.  The text written to   *)
(* the handle reaches the disk when the buffer is flushed: at the close,   *)
(* and at an abort as far as the flushes got, which is any prefix of it    *)
(* (taken here at the cell boundaries).                                    *)
(***************************************************************************)
MaxCrashWrites == 2

Attempts == Len(hist["morning"]) + Len(hist["evening"])

\* Lines 101-116: the existing rows are read, the header is computed, the
\* new row is appended to the list.
WriteRead(period, row) ==
    /\ wr.pc \in {"idle", "aborted"}
    /\ Attempts < MaxCrashWrites
    /\ wr' = [pc |-> "read", period |-> period, row |-> row, before |-> files[period],
              rows |-> RowsToWrite(files[period], row),
              fieldnames |-> Fieldnames(ExistingFields(files[period]), row),
              written |-> <<>>, next |-> 0]
    /\ hist' = [hist EXCEPT ![period] = Append(@, row)]
    /\ UNCHANGED <<files, now, out, last>>

\* Line 119: path.open("w") creates the file or truncates it.
WriteOpen ==
    /\ wr.pc = "read"
    /\ files' = [files EXCEPT ![wr.period] = [exists |-> TRUE, lines |-> <<>>]]
    /\ wr' = [wr EXCEPT !.pc = "open"]
    /\ UNCHANGED <<now, out, last, hist>>

\* Line 121: writer.writeheader()
WriteHeader ==
    /\ wr.pc = "open"
    /\ wr' = [wr EXCEPT !.pc = "rows", !.written = <<wr.fieldnames>>, !.next = 1]
    /\ UNCHANGED <<files, now, out, last, hist>>

\* Lines 122-124: writer.writerow(...) of the next row
WriteRow ==
    /\ wr.pc = "rows"
    /\ wr.next <= Len(wr.rows)
    /\ wr' = [wr EXCEPT !.written = Append(@, RowCells(wr.fieldnames, wr.rows[wr.next])),
                        !.next = @ + 1]
    /\ UNCHANGED <<files, now, out, last, hist>>

\* The end of the with block: the handle is flushed and closed.
WriteClose ==
    /\ wr.pc = "rows"
    /\ wr.next > Len(wr.rows)
    /\ files' = [files EXCEPT ![wr.period] = [exists |-> TRUE, lines |-> wr.written]]
    /\ wr' = [wr EXCEPT !.pc = "idle"]
    /\ last' = [NoLast EXCEPT !.period = wr.period, !.row = wr.row]
    /\ UNCHANGED <<now, out, hist>>

\* The first k lines of the text written, the last of them cut after c cells.
Flushed(written, k, c) ==
    IF k = 0 THEN <<>>
    ELSE Append(SubSeq(written, 1, k - 1), SubSeq(written[k], 1, c))

\* The invocation ends here: the process is killed, or the storage fails.
\* Before the open the file is as it was; after it, it holds what was flushed.
Abort ==
    /\ wr.pc \in {"read", "open", "rows"}
    /\ IF wr.pc = "read"
       THEN files' = files
       ELSE \E k \in 0..Len(wr.written) :
               \E c \in (IF k = 0 THEN {0} ELSE 1..Len(wr.written[k])) :
                  files' = [files EXCEPT ![wr.period] =
                               [exists |-> TRUE, lines |-> Flushed(wr.written, k, c)]]
    /\ wr' = [wr EXCEPT !.pc = "aborted"]
    /\ UNCHANGED <<now, out, last, hist>>

NextCrash ==
    \/ \E period \in Periods, row \in StoreRecords :
          ValidStoreRecord(row) /\ WriteRead(period, row)
    \/ WriteOpen
    \/ WriteHeader
    \/ WriteRow
    \/ WriteClose
    \/ Abort

SpecCrash == InitStore /\ [][NextCrash]_vars

\* C4: when an append is aborted, the period's table is exactly the table
\* before the append or exactly the table after it.
AppendAllOrNothing ==
    wr.pc = "aborted" =>
        \/ files[wr.period] = wr.before
        \/ files[wr.period] = Write(wr.before, wr.row)

====
